---- MODULE Spec2Model ----
(***************************************************************************)
(* Sales-transaction and stock-ledger engine of the pharmacy backend       *)
(* (server/src/handlers/stock_handlers.ts, sales part and stock part).     *)
(*                                                                         *)
(* With the patients and settings handlers that touch the same store.      *)
(*                                                                         *)
(* The entity store is the variables stock, price, ledger, sales, items,   *)
(* patients and settings.  Every handler is an async function: each        *)
(* awaited store statement is one atomic step of the store, and the        *)
(* synchronous code that follows it up to the next await belongs to the    *)
(* same step.  A handler invocation executes its first statement.          *)
(*                                                                         *)
(* The numeric(10,2) columns hold cents.  The handlers compute amounts with *)
(* JavaScript numbers, which are modelled bit for bit.                     *)
(***************************************************************************)
EXTENDS Integers, Sequences, FiniteSets, TLC

VARIABLES
    stock,      \* medicines.current_stock, per medicine id
    price,      \* medicines.price, per medicine id, in cents
    ledger,     \* stock_transactions rows, in insertion (serial id) order
    sales,      \* sales_transactions rows; the row's id is its index
    items,      \* sales_transaction_items rows, in insertion order
    patients,   \* patients rows: the ids of the rows that exist
    patientSeq, \* the last id the patients table's serial column gave out
    settings,   \* settings rows, in insertion order
    pc,         \* per request: the next awaited statement, or "idle"
    loc,        \* per request: the handler's local variables
    result,     \* per request: what the last finished call returned or threw
    initStock,  \* current_stock of every medicine when it was created
    snap,       \* the store as the sequential client saw it before its call
    req,        \* the input of the sequential client's last call
    calls       \* how many concurrent requests the server has accepted

otherTables == <<patients, patientSeq, settings>>
dbVars   == <<stock, price, ledger, sales, items, otherTables>>
envVars  == <<initStock, snap, req, calls>>
vars     == <<stock, price, ledger, sales, items, patients, patientSeq, settings,
             pc, loc, result, initStock, snap, req, calls>>

(***************************************************************************)
(* Bounds                                                                  *)
(***************************************************************************)
NumMeds          == 2   \* medicines rows
MaxStock         == 2   \* largest current_stock at creation
MaxQty           == 2   \* largest quantity of a movement or cart line
MaxCartLen       == 2   \* most lines in one cart of the sequential client
MaxSales         == 1   \* most sales the sequential client creates
MaxMovements     == 1   \* most manual movements the sequential client records
NumProcs         == 2   \* requests in flight at once
MaxConcCalls     == 3   \* most concurrent requests the server accepts
MaxPriceChanges  == 1   \* most medicines whose price the client changes
MaxPatients      == 2   \* most patients the client creates
MaxSeriesSales   == 2   \* most sales in a series of one-line sales

Medicines   == 1..NumMeds
\* serial ids start at 1: id 0 names no medicines row
MedicineIds == 0..NumMeds
Procs       == 1..NumProcs
Quantities  == 1..MaxQty
Types       == {"IN", "OUT"}
\* prices in cents: 0.10, 0.20, ...
UnitPrice   == [m \in Medicines |-> 10 * m]
Prices      == {UnitPrice[m] : m \in Medicines}
\* the dearest cart, and two payments in cents: the price of one unit of the
\* cheapest and one of the dearest medicine together, and one that covers
\* every cart
MaxTotal    == MaxCartLen * MaxQty * UnitPrice[NumMeds]
Payments    == {UnitPrice[1] + UnitPrice[NumMeds], MaxTotal}
CartLines   == [medicine_id : MedicineIds, quantity : Quantities]
CartsUpTo(n) == UNION {[1..k -> CartLines] : k \in 1..n}
Carts       == CartsUpTo(MaxCartLen)
\* concurrent requests carry one-line carts of existing medicines, fully paid
ConcCarts   == {<<line>> : line \in [medicine_id : Medicines, quantity : Quantities]}
ConcPayments == {MaxTotal}
\* quantities as a remote caller may send them: 0 and negative ones too
RawQuantities == (0 - 1)..MaxQty
\* remote one-line carts of existing medicines
RpcCarts    == {<<line>> : line \in [medicine_id : Medicines, quantity : RawQuantities]}
SaleIds     == 1..MaxSales
PatientIds  == 1..MaxPatients
ConcSaleIds == 1..MaxSales

DB == [stock |-> stock, price |-> price, ledger |-> ledger,
       sales |-> sales, items |-> items, patients |-> patients, settings |-> settings]

\* serial ids start at 1: 0 stands for null
Null     == 0
NoInput  == [op |-> "none", medicine_id |-> 0, type |-> "IN", quantity |-> 0,
             items |-> <<>>, payment_received |-> 0, id |-> 0, price |-> 0,
             patient_id |-> Null]
IdleLoc  == [input |-> NoInput, medicineData |-> <<>>, i |-> 0, txid |-> 0,
             itemResults |-> <<>>, cur |-> 0]
\* what an error message names: a medicine, the stock available and the
\* quantity asked for
NoDetail == [medicine_id |-> 0, available |-> 0, requested |-> 0]
NoResult == [op |-> "none", ok |-> FALSE, err |-> "none", id |-> 0, detail |-> NoDetail]

Idle(p) == pc[p] = "idle"
AllIdle == \A p \in Procs : Idle(p)

(***************************************************************************)
(* Control transfer shared by the handlers                                 *)
(***************************************************************************)
\* the handler resolves: its promise settles with a value
Return(p, op, id, ok) ==
    /\ pc' = [pc EXCEPT ![p] = "idle"]
    /\ loc' = [loc EXCEPT ![p] = IdleLoc]
    /\ result' = [result EXCEPT ![p] = [op |-> op, ok |-> ok, err |-> "none", id |-> id,
                                        detail |-> NoDetail]]

\* the handler rejects: catch (error) { console.error(...); throw error; }
ThrowNaming(p, op, err, detail) ==
    /\ pc' = [pc EXCEPT ![p] = "idle"]
    /\ loc' = [loc EXCEPT ![p] = IdleLoc]
    /\ result' = [result EXCEPT ![p] = [op |-> op, ok |-> FALSE, err |-> err, id |-> 0,
                                        detail |-> detail]]
Throw(p, op, err) == ThrowNaming(p, op, err, NoDetail)

\* the handler suspends at its next awaited statement
Await(p, next, l) ==
    /\ pc' = [pc EXCEPT ![p] = next]
    /\ loc' = [loc EXCEPT ![p] = l]
    /\ result' = [result EXCEPT ![p] = NoResult]

(***************************************************************************)
(* Rows                                                                    *)
(***************************************************************************)
\* notes of a manual movement (input.notes), of a sale's OUT row
\* (`Sales transaction #${transaction.id}`) and of a cancellation's IN row
\* (`Cancelled sales transaction #${id}`)
ManualNote     == [kind |-> "manual", ref |-> 0]
\* mutant: the note of a sale's OUT row leaves the transaction's id out
SaleNoteWithoutId(id) == [kind |-> "sale", ref |-> 0]
SaleNote(id)   == [kind |-> "sale", ref |-> id]
CancelNote(id) == [kind |-> "cancel", ref |-> id]

StockRow(m, t, q, n) == [medicine_id |-> m, type |-> t, quantity |-> q, notes |-> n]

ManualRows == Cardinality({k \in 1..Len(ledger) : ledger[k].notes.kind = "manual"})

(***************************************************************************)
(* JavaScript numbers                                                      *)
(*                                                                         *)
(* The handlers compute money with JavaScript numbers (IEEE 754 binary64). *)
(* A non-negative number is held here as its exact binary expansion: a     *)
(* sequence of bits, least significant first, bit i weighing               *)
(* 2^(i - 1 - FracBits), with no leading zero (zero is <<>>).  Every       *)
(* binary64 value from 2^-11 up to 2^(MantissaBits - FracBits) is such a   *)
(* sequence; the amounts of this model lie well inside that range.         *)
(***************************************************************************)
MantissaBits == 53   \* significand of a binary64, hidden bit included
ChunkBits    == 16   \* binary places produced by one division step
FracChunks   == 4
FracBits     == FracChunks * ChunkBits   \* binary places kept by the expansion

Bit(a, i) == IF i <= Len(a) THEN a[i] ELSE 0
Zeros(n)  == [i \in 1..n |-> 0]

\* drop leading zeros
Strip(a) ==
    IF \A i \in 1..Len(a) : a[i] = 0
      THEN <<>>
      ELSE SubSeq(a, 1, CHOOSE i \in 1..Len(a) :
                           a[i] = 1 /\ \A j \in (i + 1)..Len(a) : a[j] = 0)

\* the n low bits of a natural number, and the natural number a bit
\* sequence stands for when read as an integer
IntBits(v, n) == [i \in 1..n |-> (v \div 2^(i - 1)) % 2]
RECURSIVE BitsInt(_)
BitsInt(a) == IF a = <<>> THEN 0 ELSE a[1] + 2 * BitsInt(Tail(a))

\* the low chunk of a bit sequence and what lies above it
Low(a)  == SubSeq(a, 1, IF Len(a) < ChunkBits THEN Len(a) ELSE ChunkBits)
High(a) == SubSeq(a, ChunkBits + 1, Len(a))

\* exact sum a + b + carry, added chunk by chunk
RECURSIVE AddChunks(_, _, _)
AddChunks(a, b, carry) ==
    IF a = <<>> /\ b = <<>>
      THEN IntBits(carry, 1)
      ELSE LET s == BitsInt(Low(a)) + BitsInt(Low(b)) + carry
           IN  IntBits(s % 2^ChunkBits, ChunkBits)
               \o AddChunks(High(a), High(b), s \div 2^ChunkBits)
Sum(a, b) == Strip(AddChunks(a, b, 0))

\* exact difference a - b - borrow for a >= b + borrow, chunk by chunk
RECURSIVE SubChunks(_, _, _)
SubChunks(a, b, borrow) ==
    IF a = <<>>
      THEN <<>>
      ELSE LET d == BitsInt(Low(a)) - BitsInt(Low(b)) - borrow
           IN  IntBits(d % 2^ChunkBits, ChunkBits)
               \o SubChunks(High(a), High(b), IF d < 0 THEN 1 ELSE 0)
Difference(a, b) == Strip(SubChunks(a, b, 0))

\* exact product of a by the natural number n
RECURSIVE Times(_, _)
Times(a, n) ==
    IF n = 0 \/ a = <<>>
      THEN <<>>
      ELSE LET twice == Strip(<<0>> \o Times(a, n \div 2))
           IN  IF n % 2 = 1 THEN Sum(twice, a) ELSE twice

\* a < b
BitsLess(a, b) ==
    IF Len(a) # Len(b)
      THEN Len(a) < Len(b)
      ELSE \E i \in 1..Len(a) :
              a[i] < b[i] /\ \A j \in (i + 1)..Len(a) : a[j] = b[j]

\* round an exact value to the nearest binary64, ties to even; sticky says
\* that the exact value lies strictly above the expansion a
RoundToDouble(a, sticky) ==
    LET n == Len(a)
        d == n - MantissaBits
    IN  IF d <= 0
          THEN a
          ELSE LET kept  == SubSeq(a, d + 1, n)
                   lower == sticky \/ \E i \in 1..(d - 1) : a[i] = 1
                   up    == a[d] = 1 /\ (lower \/ kept[1] = 1)
               IN  Zeros(d) \o (IF up THEN Sum(kept, <<1>>) ELSE kept)

\* the first k chunks of binary places of r / den (r < den), least
\* significant first, and the remainder left after them
RECURSIVE Places(_, _, _)
Places(r, den, k) ==
    IF k = 0 THEN <<>>
    ELSE Places((r * 2^ChunkBits) % den, den, k - 1)
         \o IntBits((r * 2^ChunkBits) \div den, ChunkBits)
RECURSIVE Remainder(_, _, _)
Remainder(r, den, k) ==
    IF k = 0 THEN r ELSE Remainder((r * 2^ChunkBits) % den, den, k - 1)

\* the binary64 nearest to the decimal num / den: what parsing a decimal
\* literal or a numeric column's text yields
NearestDouble(num, den) ==
    RoundToDouble(Strip(Places(num % den, den, FracChunks)
                        \o IntBits(num \div den, ChunkBits)),
                  Remainder(num % den, den, FracChunks) # 0)

\* x * n and x + y as JavaScript computes them: the exact result, rounded
FloatTimes(x, n) == RoundToDouble(Times(x, n), FALSE)
FloatPlus(x, y)  == RoundToDouble(Sum(x, y), FALSE)

\* x - y as JavaScript computes it: a sign and a magnitude
FloatMinus(x, y) ==
    IF BitsLess(x, y)
      THEN [negative |-> TRUE,  magnitude |-> RoundToDouble(Difference(y, x), FALSE)]
      ELSE [negative |-> FALSE, magnitude |-> RoundToDouble(Difference(x, y), FALSE)]

\* mutant: the column rounds every value up to the next cent
NumericCentsCeiling(x) ==
    LET hundredfold == Times(x, 100)
        whole       == BitsInt(SubSeq(hundredfold, FracBits + 1, Len(hundredfold)))
    IN  IF \E i \in 1..FracBits : Bit(hundredfold, i) = 1 THEN whole + 1 ELSE whole

\* x.toString() stored in a numeric(10,2) column, in cents.  toString gives
\* the shortest decimal that parses back to x, and the column rounds that
\* decimal half away from zero.  A decimal ending in half a cent is the
\* shortest one exactly when x is the binary64 nearest to it; otherwise the
\* decimal and x lie on the same side of every half cent.
NumericCents(x) ==
    LET hundredfold == Times(x, 100)
        whole       == BitsInt(SubSeq(hundredfold, FracBits + 1, Len(hundredfold)))
    IN  IF Bit(hundredfold, FracBits) = 1 \/ x = NearestDouble(10 * whole + 5, 1000)
          THEN whole + 1
          ELSE whole

(***************************************************************************)
(* createStockTransaction(input)                                           *)
(***************************************************************************)
\* mutant: an OUT that would take the stock to exactly 0 is refused too
InsufficientStockOffByOne(current_stock, type, quantity) ==
    type = "OUT" /\ current_stock <= quantity

\* mutant: the sufficiency check is made for the wrong direction
InsufficientStockWrongType(current_stock, type, quantity) ==
    type = "IN" /\ current_stock < quantity

\* OUT is refused when the stock read is below the quantity
InsufficientStock(current_stock, type, quantity) ==
    type = "OUT" /\ current_stock < quantity

\* mutant: the quantity is added whatever the direction
StockChangeAlwaysAdding(type, quantity) == quantity

\* stockChange: +quantity for IN, -quantity for OUT
StockChange(type, quantity) == IF type = "IN" THEN quantity ELSE 0 - quantity

\* `Medicine with ID ${medicine_id} not found`
MedicineNotFoundError(medicine_id) == [NoDetail EXCEPT !.medicine_id = medicine_id]

\* `Insufficient stock. Available: ${current_stock}, Required: ${quantity}`
MovementStockError(current_stock, quantity) ==
    [NoDetail EXCEPT !.available = current_stock, !.requested = quantity]

\* 1.-2. select the medicine, check it exists and covers an OUT
CreateStockTransaction(p, m, t, q) ==
    /\ Idle(p)
    /\ IF m \notin Medicines
         THEN ThrowNaming(p, "createStockTransaction", "MedicineNotFound",
                          MedicineNotFoundError(m))
         ELSE IF InsufficientStock(stock[m], t, q)
           THEN ThrowNaming(p, "createStockTransaction", "InsufficientStock",
                            MovementStockError(stock[m], q))
           ELSE Await(p, "st_insert",
                      [IdleLoc EXCEPT !.input = [NoInput EXCEPT !.op = "createStockTransaction",
                                                               !.medicine_id = m,
                                                               !.type = t,
                                                               !.quantity = q],
                                      !.cur = stock[m]])
    /\ UNCHANGED <<dbVars, initStock>>

\* 3. insert the stock transaction record
StockInsert(p) ==
    /\ pc[p] = "st_insert"
    /\ ledger' = Append(ledger, StockRow(loc[p].input.medicine_id, loc[p].input.type,
                                         loc[p].input.quantity, ManualNote))
    /\ Await(p, "st_update", loc[p])
    /\ UNCHANGED <<stock, price, sales, items, otherTables, envVars>>

\* 4.-5. write current_stock computed from the stock read in step 1, return
StockUpdate(p) ==
    /\ pc[p] = "st_update"
    /\ stock' = [stock EXCEPT ![loc[p].input.medicine_id] =
                    loc[p].cur + StockChange(loc[p].input.type, loc[p].input.quantity)]
    /\ Return(p, "createStockTransaction", Len(ledger), TRUE)
    /\ UNCHANGED <<price, ledger, sales, items, otherTables, envVars>>

(***************************************************************************)
(* createSalesTransaction(input)                                           *)
(***************************************************************************)
\* mutant: no cart line is ever refused for its stock
SaleStockShortNever(current_stock, quantity) == FALSE

\* a cart line is refused when the stock read is below its quantity
SaleStockShort(current_stock, quantity) == current_stock < quantity

\* mutant: the message gives the two amounts the other way round
SaleStockErrorSwapped(medicine_id, current_stock, quantity) ==
    [medicine_id |-> medicine_id, available |-> quantity, requested |-> current_stock]

\* `Insufficient stock for ${medicineRecord.name}. Available:
\* ${medicineRecord.current_stock}, Requested: ${item.quantity}`
SaleStockError(medicine_id, current_stock, quantity) ==
    [medicine_id |-> medicine_id, available |-> current_stock, requested |-> quantity]

\* medicineData.push({...medicineRecord, requestedQuantity: item.quantity})
MedicineRecord(m, q) ==
    [id |-> m, current_stock |-> stock[m], price |-> price[m], requestedQuantity |-> q]

\* parseFloat of a numeric column's text, and a JSON amount of whole cents
\* as the request carries it: the number nearest to cents / 100
ParseFloat(cents) == NearestDouble(cents, 100)

\* itemsWithPrices: the prices of one medicineData entry
ItemWithPrice(med) ==
    [unit_price  |-> ParseFloat(med.price),
     total_price |-> FloatTimes(ParseFloat(med.price), med.requestedQuantity)]

\* totalAmount += totalPrice, entry after entry, from 0
RECURSIVE TotalAmount(_)
TotalAmount(medicineData) ==
    IF medicineData = <<>> THEN <<>>
    ELSE FloatPlus(TotalAmount(SubSeq(medicineData, 1, Len(medicineData) - 1)),
                   ItemWithPrice(medicineData[Len(medicineData)]).total_price)

\* changeAmount = input.payment_received - totalAmount
ChangeAmount(payment_received, medicineData) ==
    FloatMinus(ParseFloat(payment_received), TotalAmount(medicineData))

\* what a sale of the given lines computes and what its inserts store: every
\* amount goes to its numeric(10,2) column as the text of the number
Priced(payment_received, lines) ==
    LET changeAmount == ChangeAmount(payment_received, lines)
    IN  [insufficient     |-> changeAmount.negative,
         total_amount     |-> NumericCents(TotalAmount(lines)),
         payment_received |-> NumericCents(ParseFloat(payment_received)),
         change_amount    |-> NumericCents(changeAmount.magnitude),
         items            |-> [k \in 1..Len(lines) |->
                                 [unit_price  |-> NumericCents(ItemWithPrice(lines[k]).unit_price),
                                  total_price |-> NumericCents(ItemWithPrice(lines[k]).total_price)]]]

\* the pricing depends on the payment and on the price and quantity of each
\* line only; it is computed once for every such input
PricedLines == [price : Prices, requestedQuantity : Quantities]
Pricing ==
    [payment_received \in Payments \cup ConcPayments,
     lines \in UNION {[1..k -> PricedLines] : k \in 1..MaxCartLen} |->
        Priced(payment_received, lines)] @@ <<>>
Lines(medicineData) ==
    [k \in 1..Len(medicineData) |->
        [price |-> medicineData[k].price,
         requestedQuantity |-> medicineData[k].requestedQuantity]]
Quote(payment_received, medicineData) == Pricing[payment_received, Lines(medicineData)]

\* one pass of the validation loop over input.items[i]; after the last line the
\* totals and the change are computed and the payment is checked
ValidateItem(p, input, medicineData, i) ==
    LET item == input.items[i]
        m    == item.medicine_id
    IN  IF m \notin Medicines
          THEN ThrowNaming(p, "createSalesTransaction", "MedicineNotFound",
                           MedicineNotFoundError(m))
          ELSE IF SaleStockShort(stock[m], item.quantity)
            THEN ThrowNaming(p, "createSalesTransaction", "InsufficientStock",
                             SaleStockError(m, stock[m], item.quantity))
            ELSE LET md == Append(medicineData, MedicineRecord(m, item.quantity))
                 IN  IF i < Len(input.items)
                       THEN Await(p, "cs_select",
                                  [IdleLoc EXCEPT !.input = input, !.medicineData = md,
                                                  !.i = i + 1])
                       ELSE IF Quote(input.payment_received, md).insufficient
                         THEN Throw(p, "createSalesTransaction", "InsufficientPayment")
                         ELSE Await(p, "cs_insert_sale",
                                    [IdleLoc EXCEPT !.input = input, !.medicineData = md])

\* the call: select and validate the first cart line
CreateSalesTransactionFor(p, patient_id, cart, pay) ==
    /\ Idle(p)
    /\ ValidateItem(p, [NoInput EXCEPT !.op = "createSalesTransaction",
                                       !.patient_id = patient_id,
                                       !.items = cart,
                                       !.payment_received = pay], <<>>, 1)
    /\ UNCHANGED <<dbVars, initStock>>

\* the call for a walk-in customer: patient_id is null
CreateSalesTransaction(p, cart, pay) == CreateSalesTransactionFor(p, Null, cart, pay)

\* mutant: the loop debits each line as soon as it has been validated
SaleSelectMedicineDebiting(p) ==
    /\ pc[p] = "cs_select"
    /\ ValidateItem(p, loc[p].input, loc[p].medicineData, loc[p].i)
    /\ LET med == loc[p].medicineData[loc[p].i - 1]
       IN  stock' = [stock EXCEPT ![med.id] = med.current_stock - med.requestedQuantity]
    /\ UNCHANGED <<price, ledger, sales, items, otherTables, envVars>>

\* select and validate the next cart line
SaleSelectMedicine(p) ==
    /\ pc[p] = "cs_select"
    /\ ValidateItem(p, loc[p].input, loc[p].medicineData, loc[p].i)
    /\ UNCHANGED <<dbVars, envVars>>

\* patient_id references patients.id: a row may carry null or the id of a
\* patients row that exists
PatientReferenceHolds(patient_id) == patient_id = Null \/ patient_id \in patients

\* insert the sales_transactions row with status COMPLETED; the insert is
\* rejected by the store when the patient reference does not hold
SaleInsertTransaction(p) ==
    /\ pc[p] = "cs_insert_sale"
    /\ IF PatientReferenceHolds(loc[p].input.patient_id)
         THEN /\ sales' = Append(sales,
                    LET quote == Quote(loc[p].input.payment_received, loc[p].medicineData)
                    IN  [id |-> Len(sales) + 1,
                         patient_id |-> loc[p].input.patient_id,
                         total_amount |-> quote.total_amount,
                         payment_received |-> quote.payment_received,
                         change_amount |-> quote.change_amount,
                         status |-> "COMPLETED"])
              /\ Await(p, "cs_insert_item", [loc[p] EXCEPT !.txid = Len(sales) + 1, !.i = 1])
         ELSE /\ Throw(p, "createSalesTransaction", "StoreError")
              /\ UNCHANGED sales
    /\ UNCHANGED <<stock, price, ledger, items, otherTables, envVars>>

\* mutant: the insert also re-prices the earlier items of the same medicine
SaleInsertItemRepricing(p) ==
    /\ pc[p] = "cs_insert_item"
    /\ LET med == loc[p].medicineData[loc[p].i]
           it  == Quote(loc[p].input.payment_received, loc[p].medicineData).items[loc[p].i]
           row == [transaction_id |-> loc[p].txid, medicine_id |-> med.id,
                   quantity |-> med.requestedQuantity, unit_price |-> it.unit_price,
                   total_price |-> it.total_price]
       IN  items' = Append([k \in 1..Len(items) |->
                              IF items[k].medicine_id = med.id
                                THEN [items[k] EXCEPT !.unit_price = it.unit_price,
                                                      !.total_price = it.total_price]
                                ELSE items[k]], row)
    /\ IF loc[p].i < Len(loc[p].medicineData)
         THEN Await(p, "cs_insert_item", [loc[p] EXCEPT !.i = loc[p].i + 1])
         ELSE Await(p, "cs_update_stock", [loc[p] EXCEPT !.i = 1])
    /\ UNCHANGED <<stock, price, ledger, sales, otherTables, envVars>>

\* insert one sales_transaction_items row, in cart order
SaleInsertItem(p) ==
    /\ pc[p] = "cs_insert_item"
    /\ LET med == loc[p].medicineData[loc[p].i]
           it  == Quote(loc[p].input.payment_received, loc[p].medicineData).items[loc[p].i]
       IN  items' = Append(items,
                      [transaction_id |-> loc[p].txid, medicine_id |-> med.id,
                       quantity |-> med.requestedQuantity, unit_price |-> it.unit_price,
                       total_price |-> it.total_price])
    /\ IF loc[p].i < Len(loc[p].medicineData)
         THEN Await(p, "cs_insert_item", [loc[p] EXCEPT !.i = loc[p].i + 1])
         ELSE Await(p, "cs_update_stock", [loc[p] EXCEPT !.i = 1])
    /\ UNCHANGED <<stock, price, ledger, sales, otherTables, envVars>>

\* the stock this sale writes for a line: the stock read while validating
\* that line, less the line's quantity
SaleNewStock(med) == med.current_stock - med.requestedQuantity

\* mutant: the update has no where clause and writes every medicine
SaleUpdateStockOfAll(p) ==
    /\ pc[p] = "cs_update_stock"
    /\ LET med == loc[p].medicineData[loc[p].i]
       IN  stock' = [m \in Medicines |-> SaleNewStock(med)]
    /\ Await(p, "cs_insert_ledger", loc[p])
    /\ UNCHANGED <<price, ledger, sales, items, otherTables, envVars>>

\* update the medicine's current_stock for one line
SaleUpdateStock(p) ==
    /\ pc[p] = "cs_update_stock"
    /\ LET med == loc[p].medicineData[loc[p].i]
       IN  stock' = [stock EXCEPT ![med.id] = SaleNewStock(med)]
    /\ Await(p, "cs_insert_ledger", loc[p])
    /\ UNCHANGED <<price, ledger, sales, items, otherTables, envVars>>

\* insert the line's OUT stock transaction; after the last line, return
SaleInsertStockOut(p) ==
    /\ pc[p] = "cs_insert_ledger"
    /\ LET med == loc[p].medicineData[loc[p].i]
       IN  ledger' = Append(ledger, StockRow(med.id, "OUT", med.requestedQuantity,
                                             SaleNote(loc[p].txid)))
    /\ IF loc[p].i < Len(loc[p].medicineData)
         THEN Await(p, "cs_update_stock", [loc[p] EXCEPT !.i = loc[p].i + 1])
         ELSE Return(p, "createSalesTransaction", loc[p].txid, TRUE)
    /\ UNCHANGED <<stock, price, sales, items, otherTables, envVars>>

(***************************************************************************)
(* cancelSalesTransaction(id)                                              *)
(***************************************************************************)
\* the items of a transaction, as the select returns them
ItemsOf(id) == SelectSeq(items, LAMBDA it : it.transaction_id = id)

\* mutant: the status is compared with the wrong enum member
AlreadyCancelledWrongStatus(transaction) == transaction.status = "PENDING"

\* if (transaction.status === 'CANCELLED') return false
AlreadyCancelled(transaction) == transaction.status = "CANCELLED"

\* mutant: the compensating IN rows are written before the status is looked at
CancelSalesTransactionWritingFirst(p, id) ==
    /\ Idle(p)
    /\ IF id > Len(sales)
         THEN Return(p, "cancelSalesTransaction", id, FALSE) /\ UNCHANGED ledger
         ELSE IF AlreadyCancelled(sales[id])
           THEN /\ Return(p, "cancelSalesTransaction", id, FALSE)
                /\ ledger' = ledger \o [k \in 1..Len(ItemsOf(id)) |->
                                          StockRow(ItemsOf(id)[k].medicine_id, "IN",
                                                   ItemsOf(id)[k].quantity, CancelNote(id))]
           ELSE /\ Await(p, "cx_select_items",
                         [IdleLoc EXCEPT !.input = [NoInput EXCEPT !.op = "cancelSalesTransaction",
                                                                  !.id = id]])
                /\ UNCHANGED ledger
    /\ UNCHANGED <<stock, price, sales, items, otherTables, initStock>>

\* the call: select the transaction; absent or already CANCELLED returns false
CancelSalesTransaction(p, id) ==
    /\ Idle(p)
    /\ IF id > Len(sales)
         THEN Return(p, "cancelSalesTransaction", id, FALSE)
         ELSE IF AlreadyCancelled(sales[id])
           THEN Return(p, "cancelSalesTransaction", id, FALSE)
           ELSE Await(p, "cx_select_items",
                      [IdleLoc EXCEPT !.input = [NoInput EXCEPT !.op = "cancelSalesTransaction",
                                                               !.id = id]])
    /\ UNCHANGED <<dbVars, initStock>>

\* select the transaction's items
CancelSelectItems(p) ==
    /\ pc[p] = "cx_select_items"
    /\ Await(p, "cx_update_status", [loc[p] EXCEPT !.itemResults = ItemsOf(loc[p].input.id)])
    /\ UNCHANGED <<dbVars, envVars>>

\* mutant: the update has no where clause and cancels every sale
CancelUpdateStatusOfAll(p) ==
    /\ pc[p] = "cx_update_status"
    /\ sales' = [id \in 1..Len(sales) |-> [sales[id] EXCEPT !.status = "CANCELLED"]]
    /\ IF loc[p].itemResults = <<>>
         THEN Return(p, "cancelSalesTransaction", loc[p].input.id, TRUE)
         ELSE Await(p, "cx_select_medicine", [loc[p] EXCEPT !.i = 1])
    /\ UNCHANGED <<stock, price, ledger, items, otherTables, envVars>>

\* set status CANCELLED; with no items the loop is empty and the call returns true
CancelUpdateStatus(p) ==
    /\ pc[p] = "cx_update_status"
    /\ sales' = [sales EXCEPT ![loc[p].input.id].status = "CANCELLED"]
    /\ IF loc[p].itemResults = <<>>
         THEN Return(p, "cancelSalesTransaction", loc[p].input.id, TRUE)
         ELSE Await(p, "cx_select_medicine", [loc[p] EXCEPT !.i = 1])
    /\ UNCHANGED <<stock, price, ledger, items, otherTables, envVars>>

\* after an item is handled: the next item, or return true
CancelNextItem(p) ==
    IF loc[p].i < Len(loc[p].itemResults)
      THEN Await(p, "cx_select_medicine", [loc[p] EXCEPT !.i = loc[p].i + 1])
      ELSE Return(p, "cancelSalesTransaction", loc[p].input.id, TRUE)

\* select the item's medicine; an item whose medicine is gone is skipped
CancelSelectMedicine(p) ==
    /\ pc[p] = "cx_select_medicine"
    /\ LET item == loc[p].itemResults[loc[p].i]
       IN  IF item.medicine_id \in Medicines
             THEN Await(p, "cx_update_stock", [loc[p] EXCEPT !.cur = stock[item.medicine_id]])
             ELSE CancelNextItem(p)
    /\ UNCHANGED <<dbVars, envVars>>

\* the stock a cancellation writes for an item: the stock just read plus the
\* item's quantity
CancelNewStock(current_stock, quantity) == current_stock + quantity

\* restore the medicine's current_stock for one item
CancelRestoreStock(p) ==
    /\ pc[p] = "cx_update_stock"
    /\ LET item == loc[p].itemResults[loc[p].i]
       IN  stock' = [stock EXCEPT ![item.medicine_id] =
                        CancelNewStock(loc[p].cur, item.quantity)]
    /\ Await(p, "cx_insert_ledger", loc[p])
    /\ UNCHANGED <<price, ledger, sales, items, otherTables, envVars>>

\* insert the item's IN stock transaction
CancelInsertStockIn(p) ==
    /\ pc[p] = "cx_insert_ledger"
    /\ LET item == loc[p].itemResults[loc[p].i]
       IN  ledger' = Append(ledger, StockRow(item.medicine_id, "IN", item.quantity,
                                             CancelNote(loc[p].input.id)))
    /\ CancelNextItem(p)
    /\ UNCHANGED <<stock, price, sales, items, otherTables, envVars>>

(***************************************************************************)
(* getDashboardStats(), total_revenue                                      *)
(***************************************************************************)
\* mutant: the query has no status filter
AnyStatus(rows) == rows

\* .where(eq(salesTransactionsTable.status, 'COMPLETED'))
Completed(rows) == SelectSeq(rows, LAMBDA r : r.status = "COMPLETED")

\* COALESCE(SUM(total_amount), 0): the exact sum of a numeric column, in cents
RECURSIVE SumTotalAmount(_)
SumTotalAmount(rows) ==
    IF rows = <<>> THEN 0 ELSE Head(rows).total_amount + SumTotalAmount(Tail(rows))

\* total_revenue: parseFloat(totalRevenueResult[0]?.total || '0')
TotalRevenue(rows) == ParseFloat(SumTotalAmount(Completed(rows)))

(***************************************************************************)
(* createPatient(input), deletePatient(id)                                 *)
(***************************************************************************)
\* insert the patients row, which takes the next serial id: one statement
CreatePatient(p) ==
    /\ Idle(p)
    /\ patientSeq' = patientSeq + 1
    /\ patients' = patients \cup {patientSeq + 1}
    /\ Return(p, "createPatient", patientSeq + 1, TRUE)
    /\ UNCHANGED <<stock, price, ledger, sales, items, settings, initStock>>

\* mutant: the select compares the transaction's own id
TransactionsOfPatientByOwnId(rows, id) == SelectSeq(rows, LAMBDA r : r.id = id)

\* select().from(salesTransactionsTable).where(eq(patient_id, id))
TransactionsOfPatient(rows, id) == SelectSeq(rows, LAMBDA r : r.patient_id = id)

\* the call: select the patient's sales; any row refuses the deletion
DeletePatient(p, id) ==
    /\ Idle(p)
    /\ IF Len(TransactionsOfPatient(sales, id)) > 0
         THEN Throw(p, "deletePatient", "PatientHasTransactions")
         ELSE Await(p, "dp_delete",
                    [IdleLoc EXCEPT !.input = [NoInput EXCEPT !.op = "deletePatient",
                                                             !.id = id]])
    /\ UNCHANGED <<dbVars, initStock>>

\* delete the patients row and return whether a row was deleted; the store
\* rejects the delete while a sales_transactions row references the patient
DeletePatientRow(p) ==
    /\ pc[p] = "dp_delete"
    /\ IF \E k \in 1..Len(sales) : sales[k].patient_id = loc[p].input.id
         THEN /\ Throw(p, "deletePatient", "StoreError")
              /\ UNCHANGED patients
         ELSE /\ patients' = patients \ {loc[p].input.id}
              /\ Return(p, "deletePatient", loc[p].input.id, loc[p].input.id \in patients)
    /\ UNCHANGED <<stock, price, ledger, sales, items, patientSeq, settings, envVars>>

(***************************************************************************)
(* initializeDefaultSettings()                                             *)
(***************************************************************************)
\* defaultSettings, key and value
DefaultSettings ==
    << [key |-> "clinic_name",              value |-> "Bidan Hebat Management"],
       [key |-> "clinic_address",           value |-> ""],
       [key |-> "clinic_logo",              value |-> ""],
       [key |-> "low_stock_threshold_days", value |-> "7"],
       [key |-> "receipt_footer_text",      value |-> "Terima kasih atas kunjungan Anda"] >>

\* what getSettingByKey returns when no row has the key
NoSetting == [key |-> "", value |-> ""]

\* getSettingByKey(key): the row with the key, or null
GetSettingByKey(rows, key) ==
    LET results == SelectSeq(rows, LAMBDA r : r.key = key)
    IN  IF Len(results) > 0 THEN results[1] ELSE NoSetting

\* mutant: a row with an empty value is taken for a missing one
NotExistingOrEmpty(existing) == existing = NoSetting \/ existing.value = ""

\* if (!existing)
NotExisting(existing) == existing = NoSetting

\* the loop moves on to the next default, or the call returns
InitNextSetting(p, i) ==
    IF i < Len(DefaultSettings)
      THEN Await(p, "is_select",
                 [IdleLoc EXCEPT !.input = [NoInput EXCEPT !.op = "initializeDefaultSettings"],
                                 !.i = i + 1])
      ELSE Return(p, "initializeDefaultSettings", 0, TRUE)

\* one pass of the loop up to its insert: look the i-th default up
InitCheckSetting(p, i) ==
    IF NotExisting(GetSettingByKey(settings, DefaultSettings[i].key))
      THEN Await(p, "is_insert",
                 [IdleLoc EXCEPT !.input = [NoInput EXCEPT !.op = "initializeDefaultSettings"],
                                 !.i = i])
      ELSE InitNextSetting(p, i)

\* the call: look the first default up
InitializeDefaultSettings(p) ==
    /\ Idle(p)
    /\ InitCheckSetting(p, 1)
    /\ UNCHANGED <<dbVars, initStock>>

\* look the next default up
InitSelectSetting(p) ==
    /\ pc[p] = "is_select"
    /\ InitCheckSetting(p, loc[p].i)
    /\ UNCHANGED <<dbVars, envVars>>

\* insert the missing default; key is unique, so the store rejects the insert
\* when a row with the key exists
InitInsertSetting(p) ==
    /\ pc[p] = "is_insert"
    /\ IF \E k \in 1..Len(settings) : settings[k].key = DefaultSettings[loc[p].i].key
         THEN /\ Throw(p, "initializeDefaultSettings", "StoreError")
              /\ UNCHANGED settings
         ELSE /\ settings' = Append(settings, DefaultSettings[loc[p].i])
              /\ InitNextSetting(p, loc[p].i)
    /\ UNCHANGED <<stock, price, ledger, sales, items, patients, patientSeq, envVars>>

(***************************************************************************)
(* updateMedicine(input), price only                                       *)
(***************************************************************************)
\* the medicine's price column is overwritten: one statement
UpdateMedicinePrice(p, m, newPrice) ==
    /\ Idle(p)
    /\ price' = [price EXCEPT ![m] = newPrice]
    /\ Return(p, "updateMedicine", m, TRUE)
    /\ UNCHANGED <<stock, ledger, sales, items, otherTables, initStock>>

(***************************************************************************)
(* A store statement that rejects                                          *)
(***************************************************************************)
OpOf(p) == loc[p].input.op

\* the awaited statement throws: nothing is written by it, the handler's
\* catch block logs and rethrows, earlier writes stay
StoreFailure(p) ==
    /\ ~Idle(p)
    /\ Throw(p, OpOf(p), "StoreError")
    /\ UNCHANGED <<dbVars, envVars>>

(***************************************************************************)
(* Callers                                                                 *)
(***************************************************************************)
\* A client that calls one handler at a time and waits for it (as the test
\* suites do), noting the store before each call
Client == 1

ClientCreateStockTransaction(m, t, q) ==
    /\ ManualRows < MaxMovements
    /\ CreateStockTransaction(Client, m, t, q)
    /\ snap' = DB
    /\ req' = [NoInput EXCEPT !.op = "createStockTransaction", !.medicine_id = m,
                              !.type = t, !.quantity = q]
    /\ UNCHANGED calls

ClientCreateSalesTransaction(cart, pay) ==
    /\ Len(sales) < MaxSales
    /\ CreateSalesTransaction(Client, cart, pay)
    /\ snap' = DB
    /\ req' = [NoInput EXCEPT !.op = "createSalesTransaction", !.items = cart,
                              !.payment_received = pay]
    /\ UNCHANGED calls

ClientCreateSalesTransactionFor(patient_id, cart, pay) ==
    /\ Len(sales) < MaxSales
    /\ CreateSalesTransactionFor(Client, patient_id, cart, pay)
    /\ snap' = DB
    /\ req' = [NoInput EXCEPT !.op = "createSalesTransaction", !.patient_id = patient_id,
                              !.items = cart, !.payment_received = pay]
    /\ UNCHANGED calls

ClientCreatePatient ==
    /\ patientSeq < MaxPatients
    /\ CreatePatient(Client)
    /\ snap' = DB
    /\ req' = [NoInput EXCEPT !.op = "createPatient"]
    /\ UNCHANGED calls

ClientDeletePatient(id) ==
    /\ DeletePatient(Client, id)
    /\ snap' = DB
    /\ req' = [NoInput EXCEPT !.op = "deletePatient", !.id = id]
    /\ UNCHANGED calls

ClientInitializeDefaultSettings ==
    /\ InitializeDefaultSettings(Client)
    /\ snap' = DB
    /\ req' = [NoInput EXCEPT !.op = "initializeDefaultSettings"]
    /\ UNCHANGED calls

\* one of a series of sales of one line each
SeriesCreateSalesTransaction(cart, pay) ==
    /\ Len(sales) < MaxSeriesSales
    /\ CreateSalesTransaction(Client, cart, pay)
    /\ snap' = DB
    /\ req' = [NoInput EXCEPT !.op = "createSalesTransaction", !.items = cart,
                              !.payment_received = pay]
    /\ UNCHANGED calls

ClientCancelSalesTransaction(id) ==
    /\ CancelSalesTransaction(Client, id)
    /\ snap' = DB
    /\ req' = [NoInput EXCEPT !.op = "cancelSalesTransaction", !.id = id]
    /\ UNCHANGED calls

ClientUpdateMedicinePrice(m, newPrice) ==
    /\ Cardinality({n \in Medicines : price[n] # UnitPrice[n]}) < MaxPriceChanges
    /\ newPrice # price[m]
    /\ UpdateMedicinePrice(Client, m, newPrice)
    /\ snap' = DB
    /\ req' = [NoInput EXCEPT !.op = "updateMedicine", !.medicine_id = m,
                              !.price = newPrice]
    /\ UNCHANGED calls

\* mutant: the schema does not constrain the quantity
StockInputValidAnyQuantity(m, t, q) == TRUE

\* mutant: the schema asks for a quantity that is not negative
StockInputValidNonNegative(m, t, q) == q >= 0

\* createStockTransactionInputSchema: quantity is a positive integer
StockInputValid(m, t, q) == q > 0

\* createSalesTransactionInputSchema: the payment is positive, there is at
\* least one item and every quantity is a positive integer
SalesInputValid(cart, pay) ==
    /\ pay > 0
    /\ Len(cart) >= 1
    /\ \A k \in 1..Len(cart) : cart[k].quantity > 0

\* the procedure rejects an input its schema does not parse: the handler is
\* not called
RejectInput(op, input) ==
    /\ Idle(Client)
    /\ Throw(Client, op, "InvalidInput")
    /\ snap' = DB
    /\ req' = input
    /\ UNCHANGED <<dbVars, initStock, calls>>

\* publicProcedure.input(schema).mutation(handler), called by the client
RpcCreateStockTransaction(m, t, q) ==
    IF StockInputValid(m, t, q)
      THEN ClientCreateStockTransaction(m, t, q)
      ELSE RejectInput("createStockTransaction",
                       [NoInput EXCEPT !.op = "createStockTransaction", !.medicine_id = m,
                                       !.type = t, !.quantity = q])

RpcCreateSalesTransaction(cart, pay) ==
    IF SalesInputValid(cart, pay)
      THEN ClientCreateSalesTransaction(cart, pay)
      ELSE RejectInput("createSalesTransaction",
                       [NoInput EXCEPT !.op = "createSalesTransaction", !.items = cart,
                                       !.payment_received = pay])

\* Requests served by the HTTP server: a new one may arrive while others are
\* suspended at an await
Accept ==
    /\ calls < MaxConcCalls
    /\ calls' = calls + 1
    /\ UNCHANGED <<snap, req>>

RequestCreateStockTransaction(p, m, t, q) ==
    /\ CreateStockTransaction(p, m, t, q)
    /\ Accept

RequestCreateSalesTransaction(p, cart, pay) ==
    /\ CreateSalesTransaction(p, cart, pay)
    /\ Accept

RequestCancelSalesTransaction(p, id) ==
    /\ CancelSalesTransaction(p, id)
    /\ Accept

(***************************************************************************)
(* Specifications                                                          *)
(***************************************************************************)
\* a settings table: rows with distinct keys, the default ones or another,
\* each with an empty value or with one that is no default
SettingKeys == {DefaultSettings[k].key : k \in 1..Len(DefaultSettings)} \cup {"test_key"}
SettingValues == {"", "Existing Clinic"}
RECURSIVE SettingsRows(_, _)
SettingsRows(keys, value) ==
    IF keys = {} THEN <<>>
    ELSE LET key == CHOOSE k \in keys : TRUE
         IN  <<[key |-> key, value |-> value[key]]>> \o SettingsRows(keys \ {key}, value)
SettingsTables ==
    {SettingsRows(keys, value) : keys \in SUBSET SettingKeys,
                                 value \in [SettingKeys -> SettingValues]}

InitWith(rows) ==
    /\ stock \in [Medicines -> 0..MaxStock]
    /\ price = UnitPrice
    /\ ledger = <<>>
    /\ sales = <<>>
    /\ items = <<>>
    /\ patients = {}
    /\ patientSeq = 0
    /\ settings = rows
    /\ pc = [p \in Procs |-> "idle"]
    /\ loc = [p \in Procs |-> IdleLoc]
    /\ result = [p \in Procs |-> NoResult]
    /\ initStock = stock
    /\ snap = DB
    /\ req = NoInput
    /\ calls = 0

\* a store whose settings table is empty
Init == InitWith(<<>>)

\* one call at a time, every store statement succeeds
Next ==
    \/ \E m \in MedicineIds, t \in Types, q \in Quantities :
          ClientCreateStockTransaction(m, t, q)
    \/ \E cart \in Carts, pay \in Payments : ClientCreateSalesTransaction(cart, pay)
    \/ \E id \in SaleIds : ClientCancelSalesTransaction(id)
    \/ StockInsert(Client)
    \/ StockUpdate(Client)
    \/ SaleSelectMedicine(Client)
    \/ SaleInsertTransaction(Client)
    \/ SaleInsertItem(Client)
    \/ SaleUpdateStock(Client)
    \/ SaleInsertStockOut(Client)
    \/ CancelSelectItems(Client)
    \/ CancelUpdateStatus(Client)
    \/ CancelSelectMedicine(Client)
    \/ CancelRestoreStock(Client)
    \/ CancelInsertStockIn(Client)

Spec == Init /\ [][Next]_vars

\* one call at a time, any awaited store statement may reject
NextFail ==
    \/ Next
    \/ StoreFailure(Client)

SpecFail == Init /\ [][NextFail]_vars

\* one call at a time, the client also changes prices
NextPrice ==
    \/ Next
    \/ \E m \in Medicines, newPrice \in Prices : ClientUpdateMedicinePrice(m, newPrice)

SpecPrice == Init /\ [][NextPrice]_vars

\* one call at a time through the router, quantities of any sign
NextRpc ==
    \/ \E m \in Medicines, t \in Types, q \in RawQuantities :
          RpcCreateStockTransaction(m, t, q)
    \/ \E cart \in RpcCarts, pay \in ConcPayments : RpcCreateSalesTransaction(cart, pay)
    \/ \E id \in SaleIds : ClientCancelSalesTransaction(id)
    \/ StockInsert(Client)
    \/ StockUpdate(Client)
    \/ SaleInsertTransaction(Client)
    \/ SaleInsertItem(Client)
    \/ SaleUpdateStock(Client)
    \/ SaleInsertStockOut(Client)
    \/ CancelSelectItems(Client)
    \/ CancelUpdateStatus(Client)
    \/ CancelSelectMedicine(Client)
    \/ CancelRestoreStock(Client)
    \/ CancelInsertStockIn(Client)

SpecRpc == Init /\ [][NextRpc]_vars

\* one call at a time: patients are created and deleted, and sales are made
\* for a patient or for a walk-in customer
NextPatient ==
    \/ ClientCreatePatient
    \/ \E id \in PatientIds : ClientDeletePatient(id)
    \/ \E patient_id \in {Null} \cup PatientIds, cart \in ConcCarts, pay \in ConcPayments :
          ClientCreateSalesTransactionFor(patient_id, cart, pay)
    \/ DeletePatientRow(Client)
    \/ SaleInsertTransaction(Client)
    \/ SaleInsertItem(Client)
    \/ SaleUpdateStock(Client)
    \/ SaleInsertStockOut(Client)

SpecPatient == Init /\ [][NextPatient]_vars

\* the defaults are initialized again and again, from any settings table
InitAnySettings == \E rows \in SettingsTables : InitWith(rows)

NextSettings ==
    \/ ClientInitializeDefaultSettings
    \/ InitSelectSetting(Client)
    \/ InitInsertSetting(Client)

SpecSettings == InitAnySettings /\ [][NextSettings]_vars

\* one call at a time: a series of one-line sales, with cancellations and
\* price changes between them
NextSeries ==
    \/ \E cart \in ConcCarts, pay \in ConcPayments : SeriesCreateSalesTransaction(cart, pay)
    \/ \E id \in 1..MaxSeriesSales : ClientCancelSalesTransaction(id)
    \/ \E m \in Medicines, newPrice \in Prices : ClientUpdateMedicinePrice(m, newPrice)
    \/ SaleInsertTransaction(Client)
    \/ SaleInsertItem(Client)
    \/ SaleUpdateStock(Client)
    \/ SaleInsertStockOut(Client)
    \/ CancelSelectItems(Client)
    \/ CancelUpdateStatus(Client)
    \/ CancelSelectMedicine(Client)
    \/ CancelRestoreStock(Client)
    \/ CancelInsertStockIn(Client)

SpecSeries == Init /\ [][NextSeries]_vars

\* requests interleave at their awaits, every store statement succeeds
NextConc ==
    \E p \in Procs :
        \/ \E m \in Medicines, t \in Types, q \in Quantities :
              RequestCreateStockTransaction(p, m, t, q)
        \/ \E cart \in ConcCarts, pay \in ConcPayments :
              RequestCreateSalesTransaction(p, cart, pay)
        \/ \E id \in ConcSaleIds : RequestCancelSalesTransaction(p, id)
        \/ StockInsert(p)
        \/ StockUpdate(p)
        \/ SaleInsertTransaction(p)
        \/ SaleInsertItem(p)
        \/ SaleUpdateStock(p)
        \/ SaleInsertStockOut(p)
        \/ CancelSelectItems(p)
        \/ CancelUpdateStatus(p)
        \/ CancelSelectMedicine(p)
        \/ CancelRestoreStock(p)
        \/ CancelInsertStockIn(p)

SpecConc == Init /\ [][NextConc]_vars

(***************************************************************************)
(* Ledger arithmetic used by the properties                                *)
(***************************************************************************)
\* signed sum of the rows recorded against medicine m: IN positive, OUT negative
RECURSIVE SignedSum(_, _)
SignedSum(rows, m) ==
    IF rows = <<>> THEN 0
    ELSE (IF Head(rows).medicine_id = m
            THEN StockChange(Head(rows).type, Head(rows).quantity)
            ELSE 0) + SignedSum(Tail(rows), m)

LedgerBalance(m) == initStock[m] + SignedSum(ledger, m)

RowsWithNote(rows, n) == SelectSeq(rows, LAMBDA r : r.notes = n)

\* the OUT rows a sale records and the IN rows its cancellation records, from
\* the sale's items
SaleOutRows(its, id) ==
    [k \in 1..Len(its) |-> StockRow(its[k].medicine_id, "OUT", its[k].quantity, SaleNote(id))]
CancelInRows(its, id) ==
    [k \in 1..Len(its) |-> StockRow(its[k].medicine_id, "IN", its[k].quantity, CancelNote(id))]

ValidationErrors == {"MedicineNotFound", "InsufficientStock", "InsufficientPayment"}

(***************************************************************************)
(* Properties                                                              *)
(***************************************************************************)

\* C1: after any sequence of completed, non-overlapping createStockTransaction,
\* createSalesTransaction and cancelSalesTransaction calls, every medicine's
\* current_stock equals its stock at creation plus its IN quantities minus
\* its OUT quantities.
C1_LedgerCounterAgreement ==
    Idle(Client) => \A m \in Medicines : stock[m] = LedgerBalance(m)

\* C2: two concurrent sales of one medicine cannot both pass the stock check
\* and complete when together they ask for more than its stock: once all
\* requests have returned, a medicine whose ledger holds only sale rows has
\* a total OUT quantity of at most the stock it started with.
C2_ConcurrentSalesDoNotOverdraw ==
    AllIdle =>
        \A m \in Medicines :
            (\A k \in 1..Len(ledger) :
                ledger[k].medicine_id = m => ledger[k].notes.kind = "sale")
            => 0 - SignedSum(ledger, m) <= initStock[m]

\* C3: in every state reachable from non-negative initial stocks by the
\* sequential client's calls, every medicine's current_stock is >= 0.
C3_NoNegativeStock ==
    \A m \in Medicines : stock[m] >= 0

\* C3 witness: an OUT movement or a sale has taken a medicine's stock from a
\* positive value down to exactly 0.
C3_Witness ==
    /\ Idle(Client)
    /\ \E m \in Medicines :
          /\ stock[m] = 0
          /\ initStock[m] > 0
          /\ \E k \in 1..Len(ledger) : ledger[k].medicine_id = m /\ ledger[k].type = "OUT"

\* C4: cancelling a completed sale returns true, appends one IN row per
\* original line with that line's quantity, and, when nothing but the sale
\* has touched the store, puts every current_stock back to its value before
\* the sale.
C4_CancelRestoresStock ==
    LET r  == result[Client]
        id == r.id
    IN  ( /\ Idle(Client)
          /\ r.op = "cancelSalesTransaction"
          /\ id <= Len(snap.sales)
          /\ snap.sales[id].status = "COMPLETED" )
        => /\ r.ok
           /\ ledger = snap.ledger \o CancelInRows(ItemsOf(id), id)
           /\ (snap.ledger = SaleOutRows(ItemsOf(id), id) => stock = initStock)

\* C5: whenever createSalesTransaction fails at a validation step (unknown
\* medicine, insufficient stock, payment below the total), every table and
\* every current_stock is exactly as before the call.
C5_FailedSaleWritesNothing ==
    ( /\ Idle(Client)
      /\ result[Client].op = "createSalesTransaction"
      /\ result[Client].err \in ValidationErrors )
    => DB = snap

\* C5 witness: a two-line cart passed both stock checks and was then refused
\* for insufficient payment, with rows already in the ledger.
C5_Witness ==
    /\ Idle(Client)
    /\ result[Client].op = "createSalesTransaction"
    /\ result[Client].err = "InsufficientPayment"
    /\ ledger # <<>>
    /\ DB = snap

\* C6: if a store statement fails partway through createSalesTransaction,
\* then once the call has returned its error, no row of that attempt is
\* persisted and no current_stock has changed.
C6_SaleAllOrNothingOnStoreFailure ==
    ( /\ Idle(Client)
      /\ result[Client].op = "createSalesTransaction"
      /\ result[Client].err = "StoreError" )
    => DB = snap

\* C7: once all interleaved requests have completed, every medicine's
\* current_stock equals its initial stock plus the signed sum of the
\* quantities recorded for it: no counter update is lost.
C7_LedgerCounterAgreementConcurrent ==
    (\A p \in Procs : pc[p] = "idle")
    => \A m \in Medicines : stock[m] - SignedSum(ledger, m) = initStock[m]

\* C8: once a sale has status CANCELLED no step changes its status, and a
\* cancelSalesTransaction call made when it was already CANCELLED returns
\* false.
C8_CancelledIsTerminal ==
    /\ [][\A id \in 1..Len(sales) :
            sales[id].status = "CANCELLED"
            => (Len(sales') >= id /\ sales'[id].status = "CANCELLED")]_vars
    /\ []( ( /\ Idle(Client)
             /\ result[Client].op = "cancelSalesTransaction"
             /\ result[Client].id <= Len(snap.sales)
             /\ snap.sales[result[Client].id].status = "CANCELLED" )
           => ~result[Client].ok )

\* C8 witness: the client has called cancelSalesTransaction on a sale that
\* was already CANCELLED before the call.
C8_Witness ==
    /\ Idle(Client)
    /\ result[Client].op = "cancelSalesTransaction"
    /\ result[Client].id <= Len(snap.sales)
    /\ snap.sales[result[Client].id].status = "CANCELLED"
    /\ sales[result[Client].id].status = "CANCELLED"

\* C9: of two interleaved cancelSalesTransaction requests on one COMPLETED
\* sale at most one goes on to restore stock, so each original line is
\* credited back exactly once: once all requests have returned, a sale
\* never has more compensating IN rows than items.
C9_NoDoubleCancellation ==
    AllIdle =>
        \A id \in 1..Len(sales) :
            Len(RowsWithNote(ledger, CancelNote(id))) <= Len(ItemsOf(id))

\* C10: after a cancelSalesTransaction call has returned or failed, a sale
\* that was fully recorded (its items and their OUT rows) is CANCELLED if
\* and only if one compensating IN row exists for each of its items: a
\* CANCELLED sale with unrestored stock is unreachable.
C10_CancelledIffRestored ==
    Idle(Client) =>
        \A id \in 1..Len(sales) :
            ( /\ ItemsOf(id) # <<>>
              /\ RowsWithNote(ledger, SaleNote(id)) = SaleOutRows(ItemsOf(id), id) ) =>
                ( sales[id].status = "CANCELLED"
                  <=> RowsWithNote(ledger, CancelNote(id)) = CancelInRows(ItemsOf(id), id) )

\* total quantity of the lines of a cart (as persisted in its items) that
\* reference medicine m
RECURSIVE CartQuantity(_, _)
CartQuantity(its, m) ==
    IF its = <<>> THEN 0
    ELSE (IF Head(its).medicine_id = m THEN Head(its).quantity ELSE 0)
         + CartQuantity(Tail(its), m)

\* C11: after a successful createSalesTransaction, every medicine's
\* current_stock is its value before the call less the total quantity of the
\* cart lines that reference it; medicines not in the cart are unchanged.
C11_SaleDecrementsByCartTotal ==
    ( /\ Idle(Client)
      /\ result[Client].op = "createSalesTransaction"
      /\ result[Client].ok )
    => \A m \in Medicines :
          stock[m] = snap.stock[m] - CartQuantity(ItemsOf(result[Client].id), m)

\* the total of a cart in cents, each line priced at quantity x unit price
RECURSIVE CartTotal(_, _)
CartTotal(cart, prices) ==
    IF cart = <<>> THEN 0
    ELSE prices[Head(cart).medicine_id] * Head(cart).quantity
         + CartTotal(Tail(cart), prices)

\* C12: every persisted sale has change_amount = payment_received -
\* total_amount >= 0, and a createSalesTransaction call whose lines all pass
\* validation fails with InsufficientPayment exactly when the payment is
\* less than the cart's total: a payment equal to the total succeeds.
C12_ChangeAndInsufficientPayment ==
    /\ \A id \in 1..Len(sales) :
          /\ sales[id].change_amount = sales[id].payment_received - sales[id].total_amount
          /\ sales[id].change_amount >= 0
    /\ ( Idle(Client) /\ result[Client].op = "createSalesTransaction" ) =>
          /\ result[Client].err = "InsufficientPayment"
                => req.payment_received < CartTotal(req.items, snap.price)
          /\ result[Client].ok
                => req.payment_received >= CartTotal(req.items, snap.price)

\* sum of the total_price column of a sequence of items
RECURSIVE ItemsTotal(_)
ItemsTotal(its) ==
    IF its = <<>> THEN 0 ELSE Head(its).total_price + ItemsTotal(Tail(its))

\* the prices and quantities of persisted items, as medicineData held them
ItemLines(its) ==
    [k \in 1..Len(its) |->
        [price |-> its[k].unit_price, requestedQuantity |-> its[k].quantity]]

\* C13: after a successful createSalesTransaction every item of the sale has
\* unit_price equal to the medicine's price when the call validated it and
\* total_price = quantity x unit_price exactly, in cents, and the sale's
\* total_amount is the sum of its items' total_price.
C13_ItemsPricedExactly ==
    ( /\ Idle(Client)
      /\ result[Client].op = "createSalesTransaction"
      /\ result[Client].ok )
    => LET id  == result[Client].id
           its == ItemsOf(id)
       IN  /\ Len(its) = Len(req.items)
           /\ \A k \in 1..Len(its) :
                 /\ its[k].unit_price = snap.price[its[k].medicine_id]
                 /\ its[k].total_price = its[k].quantity * its[k].unit_price
           /\ sales[id].total_amount = ItemsTotal(its)

\* C13 witness: a sale has succeeded whose total, as the handler computed it
\* in JavaScript numbers, is not the number nearest to the stored total: the
\* column's rounding has absorbed a floating-point error.
C13_Witness ==
    /\ Idle(Client)
    /\ result[Client].op = "createSalesTransaction"
    /\ result[Client].ok
    /\ TotalAmount(ItemLines(ItemsOf(result[Client].id)))
          # ParseFloat(sales[result[Client].id].total_amount)

\* C14: no step (a price change, a later sale, a cancellation, a stock
\* movement) alters the unit_price or total_price of an item that already
\* exists.
C14_PricingSnapshot ==
    [][\A k \in 1..Len(items) :
          /\ Len(items') >= k
          /\ items'[k].unit_price = items[k].unit_price
          /\ items'[k].total_price = items[k].total_price]_vars

\* C14 witness: the price of a medicine has been changed after a sale of
\* it, and the sale's item still carries the price it was sold at.
C14_Witness ==
    /\ Idle(Client)
    /\ result[Client].op = "updateMedicine"
    /\ \E k \in 1..Len(items) :
          /\ items[k].medicine_id = req.medicine_id
          /\ items[k].unit_price = UnitPrice[req.medicine_id]
          /\ items[k].unit_price # price[req.medicine_id]

\* C15: a createStockTransaction call of type OUT on an existing medicine
\* is refused with InsufficientStock exactly when its quantity exceeds the
\* medicine's current_stock; a quantity equal to the stock is accepted and
\* leaves 0; an IN is never refused so; a refused call appends no row and
\* changes no stock.
C15_OutRefusedIffShort ==
    ( /\ Idle(Client)
      /\ result[Client].op = "createStockTransaction"
      /\ req.medicine_id \in Medicines )
    => LET m == req.medicine_id
       IN  /\ result[Client].err = "InsufficientStock"
                <=> (req.type = "OUT" /\ req.quantity > snap.stock[m])
           /\ result[Client].err = "InsufficientStock" => DB = snap
           /\ (req.type = "OUT" /\ req.quantity = snap.stock[m])
                => (result[Client].ok /\ stock[m] = 0)

\* C15 witness: an OUT of exactly the whole stock has been accepted and has
\* left the medicine at 0.
C15_Witness ==
    /\ Idle(Client)
    /\ result[Client].op = "createStockTransaction"
    /\ result[Client].ok
    /\ req.type = "OUT"
    /\ req.quantity = snap.stock[req.medicine_id]
    /\ stock[req.medicine_id] = 0

\* C16: a successful createStockTransaction call appends exactly one row,
\* carrying the given medicine, type, quantity and notes, changes that
\* medicine's current_stock by +quantity for IN and -quantity for OUT, and
\* leaves every other current_stock, the prices, the sales and their items
\* as they were.
C16_MovementEffect ==
    ( /\ Idle(Client)
      /\ result[Client].op = "createStockTransaction"
      /\ result[Client].ok )
    => /\ ledger = Append(snap.ledger,
                          StockRow(req.medicine_id, req.type, req.quantity, ManualNote))
       /\ stock = [snap.stock EXCEPT ![req.medicine_id] =
                      IF req.type = "IN" THEN @ + req.quantity ELSE @ - req.quantity]
       /\ price = snap.price
       /\ sales = snap.sales
       /\ items = snap.items

\* C16 witness: an OUT movement has succeeded on a store that already holds
\* a sale and its ledger rows.
C16_Witness ==
    /\ Idle(Client)
    /\ result[Client].op = "createStockTransaction"
    /\ result[Client].ok
    /\ req.type = "OUT"
    /\ snap.sales # <<>>
    /\ Len(ledger) = Len(snap.ledger) + 1
    /\ Len(snap.ledger) > 0

\* C17: if a store statement fails during createStockTransaction (between
\* the ledger insert and the counter update in particular), then once the
\* call has returned its error neither the row nor the counter change is
\* persisted.
C17_MovementAllOrNothingOnStoreFailure ==
    ( /\ Idle(Client)
      /\ result[Client].op = "createStockTransaction"
      /\ result[Client].err = "StoreError" )
    => DB = snap

\* C18: a createStockTransaction call with a quantity <= 0, and a
\* createSalesTransaction call with a cart line of quantity <= 0, is
\* rejected, and the rejection leaves the ledger, the stock counters and the
\* sales tables unchanged.
C18_NonPositiveQuantityRejected ==
    ( /\ Idle(Client)
      /\ \/ result[Client].op = "createStockTransaction" /\ req.quantity <= 0
         \/ /\ result[Client].op = "createSalesTransaction"
            /\ \E k \in 1..Len(req.items) : req.items[k].quantity <= 0 )
    => /\ result[Client].err = "InvalidInput"
       /\ DB = snap

\* C18 witness: a sale of a negative quantity of a medicine has been
\* rejected on a store that already holds ledger rows.
C18_Witness ==
    /\ Idle(Client)
    /\ result[Client].op = "createSalesTransaction"
    /\ result[Client].err = "InvalidInput"
    /\ req.items[1].quantity < 0
    /\ ledger # <<>>
    /\ DB = snap

\* C19: whenever cancelSalesTransaction returns false, the id was absent or
\* the sale was already CANCELLED, and the call has changed nothing: no
\* status, no current_stock, no stock_transactions row.
C19_FalseCancelChangesNothing ==
    ( /\ Idle(Client)
      /\ result[Client].op = "cancelSalesTransaction"
      /\ result[Client].err = "none"
      /\ ~result[Client].ok )
    => /\ \/ req.id > Len(snap.sales)
          \/ snap.sales[req.id].status = "CANCELLED"
       /\ DB = snap

\* C19 witness: the two ways of returning false: for an id that names no
\* sale, on a store with ledger rows, or for a sale already CANCELLED.
C19_Witness ==
    /\ Idle(Client)
    /\ result[Client].op = "cancelSalesTransaction"
    /\ result[Client].err = "none"
    /\ ~result[Client].ok
    /\ ledger # <<>>
    /\ \/ req.id > Len(sales)
       \/ sales[req.id].status = "CANCELLED" /\ ItemsOf(req.id) # <<>>

\* the total_amount of the first n sales, CANCELLED ones counting for 0
RECURSIVE RevenueUpTo(_, _)
RevenueUpTo(rows, n) ==
    IF n = 0 THEN 0
    ELSE (IF rows[n].status = "CANCELLED" THEN 0 ELSE rows[n].total_amount)
         + RevenueUpTo(rows, n - 1)

\* C20: in every state the dashboard's total_revenue is the number for the
\* sum of total_amount over the sales that are COMPLETED, and a successful
\* cancelSalesTransaction lowers it by exactly the cancelled sale's
\* total_amount.
C20_RevenueCountsCompletedOnly ==
    /\ TotalRevenue(sales) = ParseFloat(RevenueUpTo(sales, Len(sales)))
    /\ ( /\ Idle(Client)
         /\ result[Client].op = "cancelSalesTransaction"
         /\ result[Client].ok )
       => NumericCents(TotalRevenue(sales))
             = NumericCents(TotalRevenue(snap.sales)) - snap.sales[req.id].total_amount

\* C20 witness: a sale with a positive total has been cancelled and the
\* dashboard's revenue has gone from that total to 0.
C20_Witness ==
    /\ Idle(Client)
    /\ result[Client].op = "cancelSalesTransaction"
    /\ result[Client].ok
    /\ snap.sales[req.id].total_amount > 0
    /\ TotalRevenue(snap.sales) = ParseFloat(snap.sales[req.id].total_amount)
    /\ TotalRevenue(sales) = ParseFloat(0)

\* C21: deletePatient fails with an error and deletes nothing when a sale
\* references the patient, and in every state reached by createPatient,
\* createSalesTransaction and deletePatient calls the patient_id of every
\* sale is null or the id of a patient that exists.
C21_PatientWithSalesNotDeleted ==
    /\ \A k \in 1..Len(sales) :
          sales[k].patient_id = Null \/ sales[k].patient_id \in patients
    /\ ( /\ Idle(Client)
         /\ result[Client].op = "deletePatient"
         /\ \E k \in 1..Len(snap.sales) : snap.sales[k].patient_id = req.id )
       => /\ result[Client].err = "PatientHasTransactions"
          /\ DB = snap

\* C21 witness: the deletion of a patient with a sale has been refused,
\* after another patient, who had none, was deleted.
C21_Witness ==
    /\ Idle(Client)
    /\ result[Client].op = "deletePatient"
    /\ result[Client].err = "PatientHasTransactions"
    /\ req.id \in patients
    /\ \E k \in 1..Len(sales) : sales[k].patient_id = req.id
    /\ \E id \in PatientIds : id <= patientSeq /\ id \notin patients

\* the rows of a settings table that carry the key
RowsWithKey(rows, key) == {k \in 1..Len(rows) : rows[k].key = key}

\* C22: initializeDefaultSettings never changes a row that exists, whatever
\* the table it starts from; every run ends with exactly one row per default
\* key, and a run started on a table that has them all, as every run after
\* the first is, leaves the table as it was.
C22_InitializeIdempotent ==
    /\ [][\A k \in 1..Len(settings) :
            Len(settings') >= k /\ settings'[k] = settings[k]]_vars
    /\ []( ( Idle(Client) /\ result[Client].op = "initializeDefaultSettings" )
           => /\ result[Client].ok
              /\ \A d \in 1..Len(DefaultSettings) :
                    Cardinality(RowsWithKey(settings, DefaultSettings[d].key)) = 1
              /\ (\A d \in 1..Len(DefaultSettings) :
                     RowsWithKey(snap.settings, DefaultSettings[d].key) # {})
                 => settings = snap.settings )

\* C22 witness: a second run has ended and has left the table as the first
\* run left it: with a row of another value that was there before the first
\* run, followed by a default the first run added.
C22_Witness ==
    /\ Idle(Client)
    /\ result[Client].op = "initializeDefaultSettings"
    /\ result[Client].ok
    /\ settings = snap.settings
    /\ \E k \in 1..Len(settings) :
          /\ settings[k].key = "receipt_footer_text"
          /\ settings[k].value = "Existing Clinic"
          /\ k < Len(settings)
          /\ settings[Len(settings)] = DefaultSettings[1]

\* C23: the OUT rows a successful createSalesTransaction records for a
\* medicine never add up to more than the medicine's current_stock just
\* before the call, also when the cart names the medicine on several lines.
C23_NoOversellWithinSale ==
    ( /\ Idle(Client)
      /\ result[Client].op = "createSalesTransaction"
      /\ result[Client].ok )
    => \A m \in Medicines :
          0 - SignedSum(RowsWithNote(ledger, SaleNote(result[Client].id)), m)
             <= snap.stock[m]

\* C24: a successful createSalesTransaction has added exactly one sale, with
\* status COMPLETED, one item per cart line and one OUT row per cart line
\* with the line's medicine and quantity and a note referencing the new
\* sale's id, the items and the OUT rows in the order of the cart; the rows
\* that existed are still there.
C24_SalePersistsOneRowPerLine ==
    ( /\ Idle(Client)
      /\ result[Client].op = "createSalesTransaction"
      /\ result[Client].ok )
    => LET id   == result[Client].id
           cart == req.items
       IN  /\ Len(sales) = Len(snap.sales) + 1
           /\ SubSeq(sales, 1, Len(snap.sales)) = snap.sales
           /\ id = Len(sales)
           /\ sales[id].id = id
           /\ sales[id].status = "COMPLETED"
           /\ Len(items) = Len(snap.items) + Len(cart)
           /\ SubSeq(items, 1, Len(snap.items)) = snap.items
           /\ \A k \in 1..Len(cart) :
                 LET item == items[Len(snap.items) + k]
                 IN  /\ item.transaction_id = id
                     /\ item.medicine_id = cart[k].medicine_id
                     /\ item.quantity = cart[k].quantity
           /\ ledger = snap.ledger \o
                 [k \in 1..Len(cart) |->
                     [medicine_id |-> cart[k].medicine_id, type |-> "OUT",
                      quantity |-> cart[k].quantity,
                      notes |-> [kind |-> "sale", ref |-> id]]]

\* C24 witness: a cart of two lines that differ in medicine and in quantity
\* has been sold on a store whose ledger already held a row.
C24_Witness ==
    /\ Idle(Client)
    /\ result[Client].op = "createSalesTransaction"
    /\ result[Client].ok
    /\ Len(req.items) = 2
    /\ req.items[1].medicine_id # req.items[2].medicine_id
    /\ req.items[1].quantity # req.items[2].quantity
    /\ snap.ledger # <<>>
    /\ Len(ledger) = Len(snap.ledger) + 2

\* the lines of a cart whose medicine exists and has less stock than the
\* line asks for
ShortLines(cart, stocks) ==
    {k \in 1..Len(cart) : /\ cart[k].medicine_id \in Medicines
                          /\ stocks[cart[k].medicine_id] < cart[k].quantity}

\* C25: an InsufficientStock error of createSalesTransaction names the first
\* line, in the order of the cart, that is short of stock, with that
\* medicine's stock and the line's quantity, however many lines are short;
\* and a cart of existing medicines with a short line fails with that error.
C25_FirstShortLineSurfaces ==
    ( Idle(Client) /\ result[Client].op = "createSalesTransaction" )
    => LET short == ShortLines(req.items, snap.stock)
       IN  /\ result[Client].err = "InsufficientStock"
                => /\ short # {}
                   /\ LET first == CHOOSE k \in short : \A j \in short : k <= j
                          line  == req.items[first]
                      IN  result[Client].detail =
                             [medicine_id |-> line.medicine_id,
                              available   |-> snap.stock[line.medicine_id],
                              requested   |-> line.quantity]
           /\ ( /\ short # {}
                /\ \A k \in 1..Len(req.items) : req.items[k].medicine_id \in Medicines )
                => result[Client].err = "InsufficientStock"

\* C25 witness: both lines of a cart were short, for two medicines with
\* different stocks and different quantities, and the error names the first.
C25_Witness ==
    /\ Idle(Client)
    /\ result[Client].op = "createSalesTransaction"
    /\ result[Client].err = "InsufficientStock"
    /\ ShortLines(req.items, snap.stock) = {1, 2}
    /\ req.items[1].medicine_id # req.items[2].medicine_id
    /\ req.items[1].quantity # req.items[2].quantity
    /\ snap.stock[req.items[1].medicine_id] # snap.stock[req.items[2].medicine_id]
    /\ result[Client].detail.medicine_id = req.items[1].medicine_id
    /\ result[Client].detail.requested = req.items[1].quantity

\* C26: a createSalesTransaction call whose cart has a line for a medicine
\* that does not exist fails with MedicineNotFound naming that id, also when
\* an earlier line is short of stock.
C26_NotFoundBeforeStockCheck ==
    ( /\ Idle(Client)
      /\ result[Client].op = "createSalesTransaction"
      /\ \E k \in 1..Len(req.items) : req.items[k].medicine_id \notin Medicines )
    => /\ result[Client].err = "MedicineNotFound"
       /\ \E k \in 1..Len(req.items) :
             /\ req.items[k].medicine_id \notin Medicines
             /\ result[Client].detail = [medicine_id |-> req.items[k].medicine_id,
                                         available |-> 0, requested |-> 0]

\* C27: a successful cancelSalesTransaction leaves the sale's total_amount,
\* payment_received and change_amount, every item, every other sale and
\* every price as they were, whatever the prices have become since the
\* sale: it changes the sale's status, the current_stock of medicines among
\* its items, and the ledger, to which it only appends IN rows.
C27_CancelFrame ==
    ( /\ Idle(Client)
      /\ result[Client].op = "cancelSalesTransaction"
      /\ result[Client].ok )
    => /\ sales = [snap.sales EXCEPT ![req.id].status = "CANCELLED"]
       /\ items = snap.items
       /\ price = snap.price
       /\ \A m \in Medicines :
             (\A k \in 1..Len(items) :
                 items[k].transaction_id = req.id => items[k].medicine_id # m)
             => stock[m] = snap.stock[m]
       /\ Len(ledger) >= Len(snap.ledger)
       /\ SubSeq(ledger, 1, Len(snap.ledger)) = snap.ledger
       /\ \A k \in (Len(snap.ledger) + 1)..Len(ledger) : ledger[k].type = "IN"

\* C27 witness: of two sales the first has been cancelled after the price of
\* its medicine was changed; the second, of the other medicine, is still
\* COMPLETED.
C27_Witness ==
    /\ Idle(Client)
    /\ result[Client].op = "cancelSalesTransaction"
    /\ result[Client].ok
    /\ req.id = 1
    /\ Len(sales) = 2
    /\ sales[2].status = "COMPLETED"
    /\ \E k \in 1..Len(items) :
          /\ items[k].transaction_id = 1
          /\ items[k].unit_price # price[items[k].medicine_id]
    /\ \E k \in 1..Len(items) :
          /\ items[k].transaction_id = 2
          /\ items[k].medicine_id # items[1].medicine_id

\* C28: the stock ledger is append-only: every step leaves every row that
\* exists in place and unchanged (medicine, type, quantity, notes), and in
\* every state every row has a quantity > 0.
C28_LedgerAppendOnly ==
    /\ [][\A k \in 1..Len(ledger) :
            Len(ledger') >= k /\ ledger'[k] = ledger[k]]_vars
    /\ [](\A k \in 1..Len(ledger) : ledger[k].quantity > 0)

\* C28 witness: the ledger holds a manual movement, then the OUT row of a
\* sale, then the IN row of its cancellation, and a movement of a quantity
\* that is not positive has just been turned away.
C28_Witness ==
    /\ Idle(Client)
    /\ result[Client].op = "createStockTransaction"
    /\ result[Client].err = "InvalidInput"
    /\ req.quantity <= 0
    /\ Len(ledger) = 3
    /\ ledger[1].notes.kind = "manual"
    /\ ledger[2].notes.kind = "sale"
    /\ ledger[3].notes.kind = "cancel"

\* C30: however the statements of concurrent createStockTransaction,
\* createSalesTransaction and cancelSalesTransaction requests interleave, no
\* state has a current_stock below 0, and every step that changes a
\* current_stock is the counter write of a request that stores a stock it
\* read earlier, which was not negative, plus a quantity, or minus a
\* quantity of at most that stock.
C30_NoNegativeStockConcurrent ==
    /\ [](\A m \in Medicines : stock[m] >= 0)
    /\ [][\A m \in Medicines :
            stock'[m] # stock[m] =>
               \E p \in Procs :
                  \/ /\ pc[p] = "st_update"
                     /\ loc[p].input.medicine_id = m
                     /\ loc[p].cur >= 0
                     /\ \/ /\ loc[p].input.type = "IN"
                           /\ stock'[m] = loc[p].cur + loc[p].input.quantity
                        \/ /\ loc[p].input.type = "OUT"
                           /\ loc[p].input.quantity <= loc[p].cur
                           /\ stock'[m] = loc[p].cur - loc[p].input.quantity
                  \/ /\ pc[p] = "cs_update_stock"
                     /\ LET med == loc[p].medicineData[loc[p].i]
                        IN  /\ med.id = m
                            /\ med.current_stock >= 0
                            /\ med.requestedQuantity <= med.current_stock
                            /\ stock'[m] = med.current_stock - med.requestedQuantity
                  \/ /\ pc[p] = "cx_update_stock"
                     /\ loc[p].itemResults[loc[p].i].medicine_id = m
                     /\ loc[p].cur >= 0
                     /\ stock'[m] = loc[p].cur + loc[p].itemResults[loc[p].i].quantity]_vars

\* C30 witness: interleaved requests have recorded more OUT than a
\* medicine's stock and movements IN allow, so that its ledger balance is
\* below 0, while its current_stock is not.
C30_Witness ==
    /\ AllIdle
    /\ \E m \in Medicines :
          /\ LedgerBalance(m) < 0
          /\ stock[m] >= 0

\* the medicine of a finished one-line sale request: that of its item, or
\* the one its InsufficientStock error names
SoldMedicine(r) ==
    IF r.ok THEN ItemsOf(r.id)[1].medicine_id ELSE r.detail.medicine_id

\* what a one-line sale leaves when it runs alone on the initial store
SaleAloneOutcome(r) ==
    LET m == SoldMedicine(r)
    IN  IF r.ok
          THEN LET its == ItemsOf(r.id)
                   q   == its[1].quantity
               IN  /\ Len(its) = 1
                   /\ q <= initStock[m]
                   /\ stock[m] = initStock[m] - q
                   /\ its[1].unit_price = UnitPrice[m]
                   /\ its[1].total_price = q * UnitPrice[m]
                   /\ sales[r.id].status = "COMPLETED"
                   /\ sales[r.id].total_amount = q * UnitPrice[m]
                   /\ sales[r.id].change_amount
                         = sales[r.id].payment_received - q * UnitPrice[m]
                   /\ SelectSeq(ledger, LAMBDA row : row.medicine_id = m)
                         = <<[medicine_id |-> m, type |-> "OUT", quantity |-> q,
                              notes |-> [kind |-> "sale", ref |-> r.id]]>>
          ELSE /\ r.err = "InsufficientStock"
               /\ r.detail.available = initStock[m]
               /\ r.detail.requested > initStock[m]
               /\ stock[m] = initStock[m]
               /\ SelectSeq(ledger, LAMBDA row : row.medicine_id = m) = <<>>

\* the statements of createSalesTransaction that follow its validation
SaleStatements == {"cs_insert_sale", "cs_insert_item", "cs_update_stock", "cs_insert_ledger"}

\* C29: two createSalesTransaction requests on different medicines never
\* wait for each other: whenever both are in flight each one's next
\* statement can run.  And however their statements interleave, when both
\* have returned each has had the outcome it has when it runs alone, in
\* stock, ledger rows, sale and item, and the store holds nothing else.
C29_DisjointSalesIndependent ==
    /\ ( /\ calls = 2
         /\ \A p \in Procs : pc[p] \in SaleStatements
         /\ loc[1].medicineData[1].id # loc[2].medicineData[1].id )
       => \A p \in Procs :
             ENABLED ( \/ SaleInsertTransaction(p) \/ SaleInsertItem(p)
                       \/ SaleUpdateStock(p) \/ SaleInsertStockOut(p) )
    /\ ( /\ AllIdle
         /\ calls = 2
         /\ \A p \in Procs : result[p].op = "createSalesTransaction"
         /\ SoldMedicine(result[1]) # SoldMedicine(result[2]) )
       => /\ \A p \in Procs : SaleAloneOutcome(result[p])
          /\ Len(sales) = Cardinality({p \in Procs : result[p].ok})
          /\ Len(items) = Len(sales)
          /\ Len(ledger) = Len(sales)

\* C29 witness: two sales of different medicines have both succeeded, and
\* the one whose sale row was inserted second recorded its OUT row first.
C29_Witness ==
    /\ AllIdle
    /\ calls = 2
    /\ \A p \in Procs : result[p].op = "createSalesTransaction" /\ result[p].ok
    /\ SoldMedicine(result[1]) # SoldMedicine(result[2])
    /\ Len(ledger) = 2
    /\ ledger[1].notes.ref = 2
    /\ ledger[2].notes.ref = 1

====
